---- MODULE Spec2Model ----
(***************************************************************************)
(* Pointer tracking of bevy_picking (crates/bevy_picking/src/pointer.rs):   *)
(* the PointerId queries, the PointerMap rebuild, the PointerInput::receive *)
(* update pass and Location::is_in_viewport; and the advice carried by the  *)
(* errors of bevy_error (crates/bevy_error/src/lib.rs).                     *)
(***************************************************************************)
EXTENDS Integers, Sequences, FiniteSets, TLC

VARIABLES
    pointers,      \* the pointer entities, in the order a Query scans them
    map,           \* PointerMap.inner : PointerId -> Entity
    events,        \* Events<PointerInput>: the events sent, in arrival order
    last_event_count, \* the EventReader of receive: how many events it has read
    next_entity,   \* the next Entity the world allocates
    panicked,      \* a todo!() of receive has been reached
    vp_self,       \* is_in_viewport: the Location it is called on
    vp_camera,     \* is_in_viewport: the camera argument
    vp_primary,    \* is_in_viewport: the entities the primary_window query yields
    vp_result,     \* is_in_viewport: the value returned (None before a call)
    id_self,       \* the PointerId the queries are called on
    id_result,     \* the value each query of id_self returned (None before its call)
    err            \* bevy_error: the error value in hand (static, DynamicAdvice or Report)

vars == <<pointers, map, events, last_event_count, next_entity, panicked,
          vp_self, vp_camera, vp_primary, vp_result, id_self, id_result, err>>
ptr_vars == <<pointers, map, events, last_event_count, next_entity, panicked>>
vp_vars == <<vp_self, vp_camera, vp_primary, vp_result>>
id_vars == <<id_self, id_result>>
err_vars == <<err>>

\* ------------------------------------------------------------------------
\* Bounds
MaxEntities == 2   \* entities the world allocates in a run
MaxEvents == 2     \* events sent in a run
MaxSessionEvents == 3   \* events sent in a session of button presses
MaxWindows == 2    \* window entities
MaxTouchId == 3    \* touch ids 0..MaxTouchId the queries are called on

\* Option<T>
None == <<>>
Some(x) == <<x>>

\* ------------------------------------------------------------------------
\* PointerId
Mouse == <<"Mouse">>
Touch(n) == <<"Touch", n>>
Custom(u) == <<"Custom", u>>
TouchIds == {42}
Uuids == {1, 2}
PointerIds ==
    {Mouse} \cup {Touch(n) : n \in TouchIds} \cup {Custom(u) : u \in Uuids}
\* the ids the input producers of Spec send events for
InputPointerIds == {Mouse} \cup {Touch(n) : n \in TouchIds}

\* the ids the queries are called on
QueryPointerIds == PointerIds \cup {Touch(n) : n \in 0..MaxTouchId}

\* matches!(self, PointerId::Touch(_)), ::Mouse, ::Custom(_)
is_touch(self) == self[1] = "Touch"
is_mouse(self) == self[1] = "Mouse"
\* is_custom as "not the mouse"
is_custom_not_mouse(self) == self[1] # "Mouse"
is_custom(self) == self[1] = "Custom"

\* if let PointerId::Touch(id) = self { Some(*id) } else { None }
get_touch_id(self) == IF self[1] = "Touch" THEN Some(self[2]) ELSE None

\* no query called yet
NoResults == [is_touch |-> None, is_mouse |-> None, is_custom |-> None,
              get_touch_id |-> None]

call_is_touch ==
    /\ id_result.is_touch = None
    /\ id_result' = [id_result EXCEPT !.is_touch = Some(is_touch(id_self))]
    /\ UNCHANGED <<id_self, ptr_vars, vp_vars, err_vars>>

call_is_mouse ==
    /\ id_result.is_mouse = None
    /\ id_result' = [id_result EXCEPT !.is_mouse = Some(is_mouse(id_self))]
    /\ UNCHANGED <<id_self, ptr_vars, vp_vars, err_vars>>

call_is_custom ==
    /\ id_result.is_custom = None
    /\ id_result' = [id_result EXCEPT !.is_custom = Some(is_custom(id_self))]
    /\ UNCHANGED <<id_self, ptr_vars, vp_vars, err_vars>>

call_get_touch_id ==
    /\ id_result.get_touch_id = None
    /\ id_result' = [id_result EXCEPT !.get_touch_id = Some(get_touch_id(id_self))]
    /\ UNCHANGED <<id_self, ptr_vars, vp_vars, err_vars>>

\* PressDirection, PointerButton
PressDirection == {"Down", "Up"}
PointerButton == {"Primary", "Secondary", "Middle"}

\* NormalizedRenderTarget
NWindow(e) == <<"Window", e>>
NImage(h) == <<"Image", h>>

\* Location { target, position }
Locations == {[target |-> NWindow(1), position |-> <<10, 10>>],
              [target |-> NImage(1), position |-> <<0, 0>>]}
Deltas == {<<5, 5>>, <<0, 0>>}

\* PointerAction
Pressed(direction, button) ==
    [kind |-> "Pressed", direction |-> direction, button |-> button]
Moved(delta) == [kind |-> "Moved", delta |-> delta]
EnteredWindow == [kind |-> "EnteredWindow"]
LeftWindow == [kind |-> "LeftWindow"]
Canceled == [kind |-> "Canceled"]
PointerAction ==
    {Pressed(d, b) : d \in PressDirection, b \in PointerButton}
        \cup {Moved(dl) : dl \in Deltas}
        \cup {EnteredWindow, LeftWindow, Canceled}

\* PointerInput { pointer_id, location, action }
\* (the location of an event that is not a Moved is not read by receive: one value)
PointerInput ==
    {[pointer_id |-> i, location |-> l, action |-> a] :
        i \in InputPointerIds, l \in Locations, a \in {Moved(dl) : dl \in Deltas}}
    \cup {[pointer_id |-> i, location |-> [target |-> NImage(1), position |-> <<0, 0>>],
           action |-> a] :
        i \in InputPointerIds, a \in PointerAction \ {Moved(dl) : dl \in Deltas}}

\* PointerPress::default(), PointerLocation::default()
PointerPressDefault == [primary |-> FALSE, secondary |-> FALSE, middle |-> FALSE]
PointerLocationDefault == None

\* ------------------------------------------------------------------------
\* PointerMap
get_entity(m, pointer_id) ==
    IF pointer_id \in DOMAIN m THEN Some(m[pointer_id]) ELSE None

EmptyMap == [i \in {} |-> 0]

\* an insert that keeps the entry already present (HashMap::entry().or_insert)
MapInsertKeepFirst(m, id, entity) ==
    [i \in (DOMAIN m) \cup {id} |-> IF i \in DOMAIN m THEN m[i] ELSE entity]

\* HashMap::insert
MapInsert(m, id, entity) ==
    [i \in (DOMAIN m) \cup {id} |-> IF i = id THEN entity ELSE m[i]]

\* the for loop of update_pointer_map over the rows rows[k..]
RECURSIVE ScanInsert(_, _)
ScanInsert(m, rows) ==
    IF rows = <<>> THEN m
    ELSE ScanInsert(MapInsert(m, Head(rows).id, Head(rows).entity), Tail(rows))

\* the rebuild without map.inner.clear()
RebuildMapNoClear(m, rows) == ScanInsert(m, rows)

\* map.inner.clear(); for (entity, id) in &pointers { insert }
RebuildMap(m, rows) == ScanInsert(EmptyMap, rows)

update_pointer_map ==
    /\ ~panicked
    /\ map' = RebuildMap(map, pointers)
    /\ UNCHANGED <<pointers, events, last_event_count, next_entity, panicked>>
    /\ UNCHANGED <<vp_vars, id_vars, err_vars>>

\* ------------------------------------------------------------------------
\* PointerInput::receive

\* the Pressed arm with the Secondary and Middle assignments exchanged
PressEntitySwapped(row, event) ==
    IF row.id = event.pointer_id
    THEN LET is_down == event.action.direction = "Down" IN
         CASE event.action.button = "Primary" ->
                [row EXCEPT !.press.primary = is_down]
           [] event.action.button = "Secondary" ->
                [row EXCEPT !.press.middle = is_down]
           [] event.action.button = "Middle" ->
                [row EXCEPT !.press.secondary = is_down]
    ELSE row

\* the Pressed arm where Down flips the button instead of setting it
PressEntityToggle(row, event) ==
    IF row.id = event.pointer_id
    THEN IF event.action.direction = "Down"
         THEN CASE event.action.button = "Primary" ->
                     [row EXCEPT !.press.primary = ~row.press.primary]
                [] event.action.button = "Secondary" ->
                     [row EXCEPT !.press.secondary = ~row.press.secondary]
                [] event.action.button = "Middle" ->
                     [row EXCEPT !.press.middle = ~row.press.middle]
         ELSE CASE event.action.button = "Primary" ->
                     [row EXCEPT !.press.primary = FALSE]
                [] event.action.button = "Secondary" ->
                     [row EXCEPT !.press.secondary = FALSE]
                [] event.action.button = "Middle" ->
                     [row EXCEPT !.press.middle = FALSE]
    ELSE row

\* the Pressed arm applied to one entity
\* the Pressed arm of a one-button-at-a-time pointer: a button going down
\* releases the other two
PressEntityRadio(row, event) ==
    IF row.id = event.pointer_id
    THEN LET is_down == event.action.direction = "Down" IN
         [row EXCEPT !.press =
            [primary |-> IF event.action.button = "Primary" THEN is_down
                         ELSE row.press.primary /\ ~is_down,
             secondary |-> IF event.action.button = "Secondary" THEN is_down
                           ELSE row.press.secondary /\ ~is_down,
             middle |-> IF event.action.button = "Middle" THEN is_down
                        ELSE row.press.middle /\ ~is_down]]
    ELSE row

PressEntity(row, event) ==
    IF row.id = event.pointer_id
    THEN LET is_down == event.action.direction = "Down" IN
         CASE event.action.button = "Primary" ->
                [row EXCEPT !.press.primary = is_down]
           [] event.action.button = "Secondary" ->
                [row EXCEPT !.press.secondary = is_down]
           [] event.action.button = "Middle" ->
                [row EXCEPT !.press.middle = is_down]
    ELSE row

\* the Moved arm that adds delta to the position stored so far
MoveEntityByDelta(row, event) ==
    IF row.id = event.pointer_id
    THEN IF row.location = None
         THEN [row EXCEPT !.location = Some(event.location)]
         ELSE [row EXCEPT !.location =
                 Some([target |-> event.location.target,
                       position |-> <<row.location[1].position[1] + event.action.delta[1],
                                      row.location[1].position[2] + event.action.delta[2]>>])]
    ELSE row

\* the Moved arm applied to one entity
MoveEntity(row, event) ==
    IF row.id = event.pointer_id
    THEN [row EXCEPT !.location = Some(event.location)]
    ELSE row

\* pointers.iter_mut().for_each(..) of the Pressed arm
ForEachPressed(rows, event) == [k \in 1..Len(rows) |-> PressEntity(rows[k], event)]

\* a scan that stops at the first entity carrying the event's id
ForEachMovedFirstMatch(rows, event) ==
    [k \in 1..Len(rows) |->
        IF \E j \in 1..(k - 1) : rows[j].id = event.pointer_id
        THEN rows[k]
        ELSE MoveEntity(rows[k], event)]

\* pointers.iter_mut().for_each(..) of the Moved arm
ForEachMoved(rows, event) == [k \in 1..Len(rows) |-> MoveEntity(rows[k], event)]

\* for event in events.read() { match event.action { .. } }
RECURSIVE ReceiveLoop(_, _)
ReceiveLoop(rows, queue) ==
    IF queue = <<>>
    THEN [pointers |-> rows, panicked |-> FALSE, events |-> <<>>]
    ELSE LET event == Head(queue) IN
         CASE event.action.kind = "Pressed" ->
                ReceiveLoop(ForEachPressed(rows, event), Tail(queue))
           [] event.action.kind = "Moved" ->
                ReceiveLoop(ForEachMoved(rows, event), Tail(queue))
           [] OTHER ->  \* todo!()
                [pointers |-> rows, panicked |-> TRUE, events |-> Tail(queue)]

\* events.read(): the events the reader has not read yet
Unread == SubSeq(events, last_event_count + 1, Len(events))

\* receive that also refreshes the map from the entities it has just updated
receive_refreshing_map ==
    /\ ~panicked
    /\ LET r == ReceiveLoop(pointers, Unread) IN
         /\ pointers' = r.pointers
         /\ panicked' = r.panicked
         /\ last_event_count' = Len(events) - Len(r.events)
         /\ map' = RebuildMap(map, r.pointers)
    /\ UNCHANGED <<events, next_entity>>
    /\ UNCHANGED <<vp_vars, id_vars, err_vars>>

receive ==
    /\ ~panicked
    /\ LET r == ReceiveLoop(pointers, Unread) IN
         /\ pointers' = r.pointers
         /\ panicked' = r.panicked
         /\ last_event_count' = Len(events) - Len(r.events)
    /\ UNCHANGED <<map, events, next_entity>>
    /\ UNCHANGED <<vp_vars, id_vars, err_vars>>

\* ------------------------------------------------------------------------
\* The world around the two systems

\* an input producer sends one PointerInput
send_within(event, max) ==
    /\ ~panicked
    /\ Len(events) < max
    /\ events' = Append(events, event)
    /\ UNCHANGED <<pointers, map, last_event_count, next_entity, panicked>>
    /\ UNCHANGED <<vp_vars, id_vars, err_vars>>

send(event) == send_within(event, MaxEvents)

InsertAt(s, k, x) == SubSeq(s, 1, k - 1) \o <<x>> \o SubSeq(s, k, Len(s))
RemoveAt(s, k) == SubSeq(s, 1, k - 1) \o SubSeq(s, k + 1, Len(s))

\* a pointer entity is spawned with the default press and location
spawn(id, k) ==
    /\ ~panicked
    /\ next_entity <= MaxEntities
    /\ pointers' = InsertAt(pointers, k,
            [entity |-> next_entity, id |-> id,
             press |-> PointerPressDefault, location |-> PointerLocationDefault])
    /\ next_entity' = next_entity + 1
    /\ UNCHANGED <<map, events, last_event_count, panicked>>
    /\ UNCHANGED <<vp_vars, id_vars, err_vars>>

\* a pointer entity is despawned
despawn(k) ==
    /\ ~panicked
    /\ pointers' = RemoveAt(pointers, k)
    /\ UNCHANGED <<map, events, last_event_count, next_entity, panicked>>
    /\ UNCHANGED <<vp_vars, id_vars, err_vars>>

\* ------------------------------------------------------------------------
\* bevy_error

\* Severity
Severity == {"Expected", "Alert", "Warning", "Error"}

\* values that implement Display: an integer or a string slice
DisplayInt(n) == [kind |-> "int", n |-> n, s |-> ""]
DisplayStr(t) == [kind |-> "str", n |-> 0, s |-> t]
Displays == {DisplayInt(7), DisplayStr("E7")}

\* ToString::to_string through Display
Digits == <<"0", "1", "2", "3", "4", "5", "6", "7", "8", "9">>
RECURSIVE int_to_string(_)
int_to_string(n) ==
    IF n < 10 THEN Digits[n + 1]
    ELSE int_to_string(n \div 10) \o Digits[(n % 10) + 1]
to_string(d) == IF d.kind = "int" THEN int_to_string(d.n) ELSE d.s

\* Option::map(|x| x.to_string())
map_to_string(o) == IF o = None THEN None ELSE Some(to_string(o[1]))

\* an error type: whether it implements Advice, and what its Advice methods
\* return (the trait's defaults, as #[derive(Advice)] leaves them, or overrides)
AdviceErrors ==
    [advice : {TRUE}, severity : Severity,
     code : {None} \cup {Some(d) : d \in Displays},
     help : {None, Some(DisplayStr("E7"))},
     url : {None, Some(DisplayInt(7))}]
\* RuntimeError implements Error only
RuntimeError ==
    [advice |-> FALSE, severity |-> "Error", code |-> None, help |-> None, url |-> None]
Errors == AdviceErrors \cup {RuntimeError}

\* the value in hand: a static error, a DynamicAdvice or a Report
StaticError(e) == <<"Static", e>>
Dynamic(a) == <<"DynamicAdvice", a>>
Report(frame) == <<"Report", frame>>

\* From<A: Advice> for DynamicAdvice that forgets the url
DynamicAdviceFromWithoutUrl(advice) ==
    [error |-> advice,
     severity |-> advice.severity,
     code |-> map_to_string(advice.code),
     help |-> map_to_string(advice.help),
     url |-> None]

\* impl<A: Advice> From<A> for DynamicAdvice
DynamicAdviceFrom(advice) ==
    [error |-> advice,
     severity |-> advice.severity,
     code |-> map_to_string(advice.code),
     help |-> map_to_string(advice.help),
     url |-> map_to_string(advice.url)]

\* DynamicAdvice::from_error
from_error(error) ==
    [error |-> error, severity |-> "Error", code |-> None, help |-> None, url |-> None]

\* advice.into() for A: Into<DynamicAdvice>: the identity on a DynamicAdvice,
\* From<A> on an error that implements Advice
into_dynamic(value) ==
    IF value[1] = "DynamicAdvice" THEN value[2] ELSE DynamicAdviceFrom(value[2])

\* Report::from_dynamic
from_dynamic(advice) ==
    [advice |-> advice, location |-> "caller", count |-> None]

\* the three impls of SetAdvice: on an Advice error the field is set in
\* self.into(), on a DynamicAdvice in self, on a Report in its frame's advice
SetAdvice(value, field, x) ==
    CASE value[1] = "Static" ->
            Dynamic([DynamicAdviceFrom(value[2]) EXCEPT ![field] = x])
      [] value[1] = "DynamicAdvice" -> Dynamic([value[2] EXCEPT ![field] = x])
      [] value[1] = "Report" ->
            Report([value[2] EXCEPT !.advice = [@ EXCEPT ![field] = x]])

with_severity(value, severity) == SetAdvice(value, "severity", severity)
with_code(value, code) == SetAdvice(value, "code", Some(to_string(code)))
with_help(value, help) == SetAdvice(value, "help", Some(to_string(help)))
with_url(value, url) == SetAdvice(value, "url", Some(to_string(url)))

\* the value is an error type that implements Advice
IsAdvice(value) == value[1] = "Static" /\ value[2].advice
\* SetAdvice is implemented for the value
HasSetAdvice(value) == value[1] = "Static" => value[2].advice

\* DynamicAdvice::from(error), error.into()
call_from ==
    /\ IsAdvice(err)
    /\ err' = Dynamic(DynamicAdviceFrom(err[2]))
    /\ UNCHANGED <<ptr_vars, vp_vars, id_vars>>

\* Err(error)? in a function returning Result<T, Report>: Report::from
question_mark ==
    /\ IsAdvice(err) \/ err[1] = "DynamicAdvice"
    /\ err' = Report(from_dynamic(into_dynamic(err)))
    /\ UNCHANGED <<ptr_vars, vp_vars, id_vars>>

call_from_error ==
    /\ err[1] = "Static"
    /\ err' = Dynamic(from_error(err[2]))
    /\ UNCHANGED <<ptr_vars, vp_vars, id_vars>>

\* IntoReport::report on Err(error)
report ==
    /\ err[1] = "Static"
    /\ err' = Report(from_dynamic(into_dynamic(Dynamic(from_error(err[2])))))
    /\ UNCHANGED <<ptr_vars, vp_vars, id_vars>>

call_with_severity ==
    /\ HasSetAdvice(err)
    /\ \E severity \in Severity : err' = with_severity(err, severity)
    /\ UNCHANGED <<ptr_vars, vp_vars, id_vars>>

call_with_code ==
    /\ HasSetAdvice(err)
    /\ \E code \in Displays : err' = with_code(err, code)
    /\ UNCHANGED <<ptr_vars, vp_vars, id_vars>>

call_with_help ==
    /\ HasSetAdvice(err)
    /\ \E help \in Displays : err' = with_help(err, help)
    /\ UNCHANGED <<ptr_vars, vp_vars, id_vars>>

call_with_url ==
    /\ HasSetAdvice(err)
    /\ \E url \in Displays : err' = with_url(err, url)
    /\ UNCHANGED <<ptr_vars, vp_vars, id_vars>>

\* no call of a PointerId query and no conversion of an error under way
IdIdle == id_self = Mouse /\ id_result = NoResults
ErrIdle == err = StaticError(RuntimeError)

\* ------------------------------------------------------------------------
\* Location::is_in_viewport

\* RenderTarget
WindowPrimary == <<"WindowPrimary">>
WindowEntity(e) == <<"WindowEntity", e>>
Image(h) == <<"Image", h>>

WindowEntities == 1..MaxWindows
RenderTargets ==
    {WindowPrimary} \cup {WindowEntity(e) : e \in WindowEntities} \cup {Image(1)}
NormalizedRenderTargets == {NWindow(e) : e \in WindowEntities} \cup {NImage(1)}

\* RenderTarget::normalize(primary_window: Option<Entity>)
normalize(target, primary_window) ==
    CASE target[1] = "WindowPrimary" ->
            IF primary_window = None THEN None ELSE Some(NWindow(primary_window[1]))
      [] target[1] = "WindowEntity" -> Some(NWindow(target[2]))
      [] target[1] = "Image" -> Some(NImage(target[2]))

\* Query::get_single(): Ok(w) when the query yields exactly one entity
get_single(query) ==
    IF Cardinality(query) = 1 THEN Some(CHOOSE w \in query : TRUE) ELSE None

\* f32: the integers stand for the finite values, NaN for a not-a-number
NaN == 999
F32Sub(a, b) == IF a = NaN \/ b = NaN THEN NaN ELSE a - b
\* f32::min, f32::max: when one argument is NaN the other is returned
F32Min(a, b) == IF a = NaN THEN b ELSE IF b = NaN THEN a ELSE IF a < b THEN a ELSE b
F32Max(a, b) == IF a = NaN THEN b ELSE IF b = NaN THEN a ELSE IF a > b THEN a ELSE b
\* x >= 0.0, x <= 0.0: false on NaN
F32Ge0(x) == x # NaN /\ x >= 0
F32Le0(x) == x # NaN /\ x <= 0

\* Vec2
Vec2Sub(a, b) == <<F32Sub(a[1], b[1]), F32Sub(a[2], b[2])>>
min_element(v) == F32Min(v[1], v[2])
max_element(v) == F32Max(v[1], v[2])

Coords == {0, 5, 10, NaN}
Vec2s == Coords \X Coords
Rects == {[min |-> <<5, 5>>, max |-> <<10, 10>>], [min |-> <<0, 5>>, max |-> <<5, 10>>]}
\* a camera: its render target and what logical_viewport_rect() returns
Cameras == [target : RenderTargets,
            logical_viewport_rect : {None} \cup {Some(r) : r \in Rects}]
ViewportLocations == [target : NormalizedRenderTargets, position : Vec2s]

\* is_in_viewport without the comparison of the two render targets
is_in_viewport_any_target(self, camera, primary_window) ==
    LET w == get_single(primary_window) IN
    IF w = None THEN FALSE
    ELSE LET position == <<self.position[1], self.position[2]>>
             rect == camera.logical_viewport_rect
         IN IF rect = None THEN FALSE
            ELSE /\ F32Ge0(min_element(Vec2Sub(position, rect[1].min)))
                 /\ F32Le0(max_element(Vec2Sub(position, rect[1].max)))

\* is_in_viewport that skips the comparison of the targets when there is no
\* single primary window, instead of returning false
is_in_viewport_skip_without_primary(self, camera, primary_window) ==
    LET w == get_single(primary_window) IN
    IF w # None /\ normalize(camera.target, Some(w[1])) # Some(self.target) THEN FALSE
    ELSE LET position == <<self.position[1], self.position[2]>>
             rect == camera.logical_viewport_rect
         IN IF rect = None THEN FALSE
            ELSE /\ F32Ge0(min_element(Vec2Sub(position, rect[1].min)))
                 /\ F32Le0(max_element(Vec2Sub(position, rect[1].max)))

\* is_in_viewport that normalizes with primary_window.get_single().ok(), so
\* that the primary window is needed only by a camera that targets it
is_in_viewport_lazy_primary(self, camera, primary_window) ==
    IF normalize(camera.target, get_single(primary_window)) # Some(self.target) THEN FALSE
    ELSE LET position == <<self.position[1], self.position[2]>>
             rect == camera.logical_viewport_rect
         IN IF rect = None THEN FALSE
            ELSE /\ F32Ge0(min_element(Vec2Sub(position, rect[1].min)))
                 /\ F32Le0(max_element(Vec2Sub(position, rect[1].max)))

is_in_viewport(self, camera, primary_window) ==
    LET w == get_single(primary_window) IN
    IF w = None THEN FALSE
    ELSE IF normalize(camera.target, Some(w[1])) # Some(self.target) THEN FALSE
    ELSE LET position == <<self.position[1], self.position[2]>>
             rect == camera.logical_viewport_rect
         IN IF rect = None THEN FALSE
            ELSE /\ F32Ge0(min_element(Vec2Sub(position, rect[1].min)))
                 /\ F32Le0(max_element(Vec2Sub(position, rect[1].max)))

\* a caller evaluates is_in_viewport on its arguments
call_is_in_viewport ==
    /\ vp_result = None
    /\ vp_result' = Some(is_in_viewport(vp_self, vp_camera, vp_primary))
    /\ UNCHANGED <<vp_self, vp_camera, vp_primary>>
    /\ UNCHANGED <<ptr_vars, id_vars, err_vars>>

InitPointers ==
    /\ pointers = <<>>
    /\ map = EmptyMap
    /\ events = <<>>
    /\ last_event_count = 0
    /\ next_entity = 1
    /\ panicked = FALSE

InitViewport ==
    /\ InitPointers
    /\ IdIdle
    /\ ErrIdle
    /\ vp_self \in ViewportLocations
    /\ vp_camera \in Cameras
    /\ vp_primary \in SUBSET WindowEntities
    /\ vp_result = None

NextViewport == call_is_in_viewport

SpecViewport == InitViewport /\ [][NextViewport]_vars

\* ------------------------------------------------------------------------
\* no call of is_in_viewport under way
ViewportIdle ==
    /\ vp_self = [target |-> NWindow(1), position |-> <<10, 10>>]
    /\ vp_camera = [target |-> WindowPrimary, logical_viewport_rect |-> None]
    /\ vp_primary = {}
    /\ vp_result = None

Init ==
    /\ InitPointers
    /\ ViewportIdle
    /\ IdIdle
    /\ ErrIdle

\* the queries of one PointerId, each called once
InitId ==
    /\ InitPointers
    /\ ViewportIdle
    /\ ErrIdle
    /\ id_self \in QueryPointerIds
    /\ id_result = NoResults

NextId ==
    \/ call_is_touch
    \/ call_is_mouse
    \/ call_is_custom
    \/ call_get_touch_id

SpecId == InitId /\ [][NextId]_vars

\* one error value, converted and edited
InitError ==
    /\ InitPointers
    /\ ViewportIdle
    /\ IdIdle
    /\ err \in {StaticError(e) : e \in Errors}

NextError ==
    \/ call_from
    \/ question_mark
    \/ call_from_error
    \/ report
    \/ call_with_severity
    \/ call_with_code
    \/ call_with_help
    \/ call_with_url

SpecError == InitError /\ [][NextError]_vars

Spawn == \E id \in InputPointerIds : \E k \in 1..(Len(pointers) + 1) : spawn(id, k)
SpawnLast == \E id \in InputPointerIds : spawn(id, Len(pointers) + 1)
SpawnAny == \E id \in PointerIds : \E k \in 1..(Len(pointers) + 1) : spawn(id, k)
Despawn == \E k \in 1..Len(pointers) : despawn(k)
Send == \E event \in PointerInput : send(event)

Next ==
    \/ Spawn
    \/ Despawn
    \/ Send
    \/ update_pointer_map
    \/ receive

Spec == Init /\ [][Next]_vars

\* the pointer entities and the rebuild of the map alone
NextMap ==
    \/ SpawnAny
    \/ Despawn
    \/ update_pointer_map

SpecMap == Init /\ [][NextMap]_vars

\* the update pass alone, over a population of pointers that grows: receive
\* visits every entity whatever the scan order, and neither reads nor writes
\* the map
NextInput ==
    \/ SpawnLast
    \/ Send
    \/ receive

SpecInput == Init /\ [][NextInput]_vars

\* the events of a session: for the mouse every button going down, the
\* primary button going up and one move; for the touch a primary press
SessionInput ==
    {event \in PointerInput :
        \/ /\ event.pointer_id = Mouse
           /\ event.action.kind = "Pressed"
           /\ (event.action.direction = "Down" \/ event.action.button = "Primary")
        \/ /\ event.pointer_id = Mouse
           /\ event.action.kind = "Moved"
           /\ event.action.delta = <<5, 5>>
           /\ event.location.target = NWindow(1)
        \/ /\ event.pointer_id # Mouse
           /\ event.action = Pressed("Down", "Primary")}
SendSession == \E event \in SessionInput : send_within(event, MaxSessionEvents)

\* the update pass over sessions long enough to press all three buttons
NextSession ==
    \/ SpawnLast
    \/ SendSession
    \/ receive

SpecSession == Init /\ [][NextSession]_vars

\* every system and every world change, interleaved freely
SendButtons == \E event \in SessionInput : send(event)

NextWorld ==
    \/ SpawnLast
    \/ Despawn
    \/ SendButtons
    \/ update_pointer_map
    \/ receive

SpecWorld == Init /\ [][NextWorld]_vars

TypeOK ==
    /\ last_event_count \in 0..Len(events)
    /\ next_entity \in 1..(MaxEntities + 1)
    /\ panicked \in BOOLEAN
    /\ Len(pointers) <= MaxEntities
    /\ Len(events) <= MaxSessionEvents

\* ========================================================================
\* Claims

\* the positions of the scan at which a live pointer entity carries id
Carriers(rows, id) == {k \in 1..Len(rows) : rows[k].id = id}
SetMax(S) == CHOOSE x \in S : \A y \in S : y <= x

\* C1 as stated: after every run of update_pointer_map, get_entity(i) is Some(e)
\* for every live pointer entity e with id i, and None for every id that no
\* live entity carries.
C1_EveryLiveEntityMapped ==
    [][update_pointer_map =>
        /\ \A k \in 1..Len(pointers') :
              get_entity(map', pointers'[k].id) = Some(pointers'[k].entity)
        /\ \A i \in PointerIds :
              Carriers(pointers', i) = {} => get_entity(map', i) = None]_vars

\* C1 amended: after every run of update_pointer_map, for every id i,
\* get_entity(i) is None when no live pointer entity carries i, is Some(e) when
\* e is the only live entity carrying i, and is Some of one of the live
\* entities carrying i when several share it.
C1_MapMatchesLiveEntities ==
    [][update_pointer_map =>
        \A i \in PointerIds :
            IF Carriers(pointers', i) = {}
            THEN get_entity(map', i) = None
            ELSE \E k \in Carriers(pointers', i) :
                    get_entity(map', i) = Some(pointers'[k].entity)]_vars

\* C1 witness: after spawns and a despawn, the map holds exactly the live
\* entities: one entry names the surviving entity, the despawned one is gone.
C1_Witness ==
    /\ next_entity = 3
    /\ Len(pointers) = 1
    /\ pointers[1].entity = 2
    /\ DOMAIN map = {pointers[1].id}
    /\ get_entity(map, pointers[1].id) = Some(2)

\* C9: when two or more live pointer entities share a PointerId as
\* update_pointer_map runs, the map's entry for that id is the entity met last
\* in the scan, and no error is raised.
C9_LastScannedWins ==
    [][update_pointer_map =>
        /\ ~panicked'
        /\ \A i \in PointerIds :
              Cardinality(Carriers(pointers, i)) >= 2 =>
                 get_entity(map', i) = Some(pointers[SetMax(Carriers(pointers, i))].entity)]_vars

\* C9 witness: two live entities share an id, the one scanned last was spawned
\* first, and the map names it.
C9_Witness ==
    /\ Len(pointers) = 2
    /\ pointers[1].id = pointers[2].id
    /\ pointers[2].entity < pointers[1].entity
    /\ get_entity(map, pointers[2].id) = Some(pointers[2].entity)

\* ------------------------------------------------------------------------
\* PointerInput::receive, seen from a step of receive over the queue Unread

Reserved == {"EnteredWindow", "LeftWindow", "Canceled"}

\* the loop reaches event k of the queue and handles it without a todo!()
Processed(k) == \A j \in 1..k : Unread[j].action.kind \notin Reserved

\* the pointer entities once the loop has handled the first k events
AfterEvent(k) ==
    IF k = Len(Unread) THEN pointers'
    ELSE ReceiveLoop(pointers, SubSeq(Unread, 1, k)).pointers

Button(press, button) ==
    CASE button = "Primary" -> press.primary
      [] button = "Secondary" -> press.secondary
      [] button = "Middle" -> press.middle

Matching(rows, event) == {r \in 1..Len(rows) : rows[r].id = event.pointer_id}

\* every event sent has been read, by passes that all returned
AllRead == last_event_count = Len(events) /\ ~panicked

\* C2 as stated: a pass of receive over a queue holding an EnteredWindow,
\* LeftWindow or Canceled event completes normally, reads the whole queue, and
\* such events change no PointerPress and no PointerLocation.
C2_ReservedActionsAreNoOps ==
    [][(receive /\ \E k \in 1..Len(Unread) : Unread[k].action.kind \in Reserved) =>
        /\ ~panicked'
        /\ last_event_count' = Len(events)
        /\ (\A k \in 1..Len(Unread) : Unread[k].action.kind \in Reserved)
              => pointers' = pointers]_vars

\* C3: once receive has handled a Moved event, every pointer entity carrying
\* the event's pointer_id has the location Some(event.location), whatever the
\* delta and whatever the location stored before.
C3_MovedSetsLocation ==
    [][receive =>
        \A k \in 1..Len(Unread) :
            (Processed(k) /\ Unread[k].action.kind = "Moved") =>
                \A r \in Matching(AfterEvent(k), Unread[k]) :
                    AfterEvent(k)[r].location = Some(Unread[k].location)]_vars

\* C3 witness: two Moved events for a live pointer have been read, the second
\* to another location than the first and with a delta that is not the
\* displacement; the entity is at the second event's location.
C3_Witness ==
    /\ AllRead
    /\ Len(events) = 2
    /\ events[1].action.kind = "Moved"
    /\ events[2].action = Moved(<<5, 5>>)
    /\ events[1].pointer_id = events[2].pointer_id
    /\ events[1].location # events[2].location
    /\ \E r \in Matching(pointers, events[2]) :
          pointers[r].location = Some(events[2].location)

\* C4: once receive has handled a Pressed{direction, button} event, every
\* pointer entity carrying the event's pointer_id has that button true if the
\* direction is Down and false if it is Up.
C4_PressedSetsButton ==
    [][receive =>
        \A k \in 1..Len(Unread) :
            (Processed(k) /\ Unread[k].action.kind = "Pressed") =>
                \A r \in Matching(AfterEvent(k), Unread[k]) :
                    Button(AfterEvent(k)[r].press, Unread[k].action.button)
                        = (Unread[k].action.direction = "Down")]_vars

\* C4 witness: Down then Up of the middle button of a live pointer have been
\* read; the button is released again and the others were never touched.
C4_Witness ==
    /\ AllRead
    /\ Len(events) = 2
    /\ events[1].action = Pressed("Down", "Middle")
    /\ events[2].action = Pressed("Up", "Middle")
    /\ events[1].pointer_id = events[2].pointer_id
    /\ \E r \in Matching(pointers, events[2]) : pointers[r].press = PointerPressDefault

\* C5 as stated: a pass of receive over events whose pointer_id no live
\* pointer entity carries does not fail and changes no entity and not the map.
C5_UnmatchedEventsDropped ==
    [][(receive /\ \A k \in 1..Len(Unread) : Matching(pointers, Unread[k]) = {}) =>
        /\ ~panicked'
        /\ last_event_count' = Len(events)
        /\ pointers' = pointers
        /\ map' = map]_vars

\* the last event of the queue that is a Pressed of this button for this id
LastPressed(id, button) ==
    {k \in 1..Len(Unread) :
        /\ Unread[k].pointer_id = id
        /\ Unread[k].action.kind = "Pressed"
        /\ Unread[k].action.button = button
        /\ \A j \in (k + 1)..Len(Unread) :
              ~(/\ Unread[j].pointer_id = id
                /\ Unread[j].action.kind = "Pressed"
                /\ Unread[j].action.button = button)}

\* the last event of the queue that is a Moved for this id
LastMoved(id) ==
    {k \in 1..Len(Unread) :
        /\ Unread[k].pointer_id = id
        /\ Unread[k].action.kind = "Moved"
        /\ \A j \in (k + 1)..Len(Unread) :
              ~(Unread[j].pointer_id = id /\ Unread[j].action.kind = "Moved")}

\* C6 as stated: a pass of receive reads the whole queue, and afterwards each
\* button of each pointer entity has the value of the last Pressed event of the
\* queue for its id and that button (its value before, if there is none), and
\* its location is that of the last Moved event for its id (the location
\* before, if there is none).
C6_PassIsFoldOfQueue ==
    [][receive =>
        /\ last_event_count' = Len(events)
        /\ Len(pointers') = Len(pointers)
        /\ \A r \in 1..Len(pointers) :
              /\ \A b \in PointerButton :
                    Button(pointers'[r].press, b) =
                       IF LastPressed(pointers[r].id, b) = {}
                       THEN Button(pointers[r].press, b)
                       ELSE \E k \in LastPressed(pointers[r].id, b) :
                               Unread[k].action.direction = "Down"
              /\ pointers'[r].location =
                    IF LastMoved(pointers[r].id) = {}
                    THEN pointers[r].location
                    ELSE LET k == CHOOSE k \in LastMoved(pointers[r].id) : TRUE
                         IN Some(Unread[k].location)]_vars

\* C7: once receive has handled a Pressed or Moved event whose pointer_id
\* several live pointer entities carry, every one of them has the event's
\* button value, or the event's location.
C7_AllMatchesUpdated ==
    [][receive =>
        \A k \in 1..Len(Unread) :
            Processed(k) =>
                \A r1, r2 \in Matching(AfterEvent(k), Unread[k]) :
                    r1 # r2 =>
                        IF Unread[k].action.kind = "Pressed"
                        THEN /\ Button(AfterEvent(k)[r1].press, Unread[k].action.button)
                                  = Button(AfterEvent(k)[r2].press, Unread[k].action.button)
                             /\ Button(AfterEvent(k)[r2].press, Unread[k].action.button)
                                  = (Unread[k].action.direction = "Down")
                        ELSE /\ AfterEvent(k)[r1].location = AfterEvent(k)[r2].location
                             /\ AfterEvent(k)[r2].location = Some(Unread[k].location)]_vars

\* C7 witness: two live entities share an id and differ in their buttons (one
\* was spawned after a press); a Moved event for the id has been read and
\* both are at its location.
C7_Witness ==
    /\ AllRead
    /\ Len(events) = 2
    /\ events[2].action.kind = "Moved"
    /\ Len(pointers) = 2
    /\ pointers[1].id = events[2].pointer_id
    /\ pointers[2].id = events[2].pointer_id
    /\ pointers[1].press # pointers[2].press
    /\ pointers[1].location = Some(events[2].location)
    /\ pointers[2].location = Some(events[2].location)

\* C8: a Pressed event is idempotent: handling the same Pressed{direction,
\* button} for the same pointer a second time, right after the first, leaves
\* every pointer entity as the first left it.
C8_PressedIdempotent ==
    [][receive =>
        \A k \in 1..Len(Unread) :
            (Processed(k) /\ Unread[k].action.kind = "Pressed") =>
                /\ ReceiveLoop(AfterEvent(k), <<Unread[k]>>).pointers = AfterEvent(k)
                /\ (k < Len(Unread) /\ Unread[k + 1] = Unread[k])
                      => AfterEvent(k + 1) = AfterEvent(k)]_vars

\* C8 witness: the same Pressed{Down, Secondary} has been read twice in a row
\* for a live pointer, which has the secondary button pressed and nothing else.
C8_Witness ==
    /\ AllRead
    /\ Len(events) = 2
    /\ events[1] = events[2]
    /\ events[1].action = Pressed("Down", "Secondary")
    /\ \E r \in Matching(pointers, events[1]) :
          pointers[r].press = [primary |-> FALSE, secondary |-> TRUE, middle |-> FALSE]

\* the camera's render target normalized against the primary window
\* (None when the camera targets the primary window and there is not exactly one)
CameraTargetNormalized ==
    normalize(vp_camera.target, get_single(vp_primary))

\* a <= b on f32: false when either is NaN
F32Le(a, b) == a # NaN /\ b # NaN /\ a <= b

InRect(position, rect) ==
    /\ F32Le(rect.min[1], position[1]) /\ F32Le(position[1], rect.max[1])
    /\ F32Le(rect.min[2], position[2]) /\ F32Le(position[2], rect.max[2])

\* C10: is_in_viewport returns false whenever the camera's render target,
\* normalized against the primary window, differs from the location's target,
\* whatever the position and the camera's viewport rectangle.
C10_DifferentTargetsNotContained ==
    (vp_result # None /\ CameraTargetNormalized # Some(vp_self.target))
        => vp_result = Some(FALSE)

\* C10 witness: a call with one primary window, a camera on another target than
\* the location, and the position inside the camera's viewport rectangle.
C10_Witness ==
    /\ vp_result = Some(FALSE)
    /\ Cardinality(vp_primary) = 1
    /\ CameraTargetNormalized # None
    /\ CameraTargetNormalized # Some(vp_self.target)
    /\ vp_camera.logical_viewport_rect # None
    /\ InRect(vp_self.position, vp_camera.logical_viewport_rect[1])

\* C11: when the camera targets the primary window and no primary window
\* exists, is_in_viewport returns false (and returns), for every location.
C11_NoPrimaryWindowNotContained ==
    (vp_result # None /\ vp_camera.target = WindowPrimary /\ vp_primary = {})
        => vp_result = Some(FALSE)

\* C11 witness: a call with a camera on the primary window, no primary window,
\* and a position inside the camera's viewport rectangle.
C11_Witness ==
    /\ vp_result = Some(FALSE)
    /\ vp_camera.target = WindowPrimary
    /\ vp_primary = {}
    /\ vp_camera.logical_viewport_rect # None
    /\ InRect(vp_self.position, vp_camera.logical_viewport_rect[1])

\* the targets match: the primary-window query yields one window and the
\* camera's target normalized against it is the location's target
TargetsMatch ==
    /\ get_single(vp_primary) # None
    /\ CameraTargetNormalized = Some(vp_self.target)

\* C12 as stated: when the targets match, is_in_viewport returns true if and
\* only if the camera has a viewport rectangle [min, max] with
\* min.x <= position.x <= max.x and min.y <= position.y <= max.y.
C12_ContainedIffInClosedRect ==
    (vp_result # None /\ TargetsMatch) =>
        vp_result = Some(/\ vp_camera.logical_viewport_rect # None
                         /\ InRect(vp_self.position, vp_camera.logical_viewport_rect[1]))

LiveEntities == {pointers[r].entity : r \in 1..Len(pointers)}

\* C13: update_pointer_map is the only writer of the PointerMap: every step
\* that is not a rebuild (a spawn, a despawn, a send, a pass of receive) leaves
\* the map as the last rebuild computed it, so get_entity answers the same for
\* every id.
C13_OnlyRebuildWritesMap ==
    [][update_pointer_map \/
        (map' = map /\ \A id \in PointerIds : get_entity(map', id) = get_entity(map, id))]_vars

\* C13 witness: after a rebuild, a despawn, a spawn and a pass of receive that
\* pressed a button, the map still names an entity that is gone and has no
\* entry for the id of a live entity.
C13_Witness ==
    /\ last_event_count > 0
    /\ \E r \in 1..Len(pointers) :
          /\ pointers[r].press # PointerPressDefault
          /\ get_entity(map, pointers[r].id) = None
    /\ \E id \in PointerIds :
          /\ get_entity(map, id) # None
          /\ get_entity(map, id)[1] \notin LiveEntities

\* the pointer entities before the loop handles event k
BeforeEvent(k) ==
    IF k = 1 THEN pointers
    ELSE ReceiveLoop(pointers, SubSeq(Unread, 1, k - 1)).pointers

\* C16: an event handled by receive changes nothing beyond the field it
\* names: no event changes the number of entities, an entity's PointerId or an
\* entity whose id is not the event's; a Pressed event leaves every location
\* and the other two buttons as they were; a Moved event leaves every button
\* as it was.
C16_OnlyNamedFieldChanges ==
    [][receive =>
        \A k \in 1..Len(Unread) :
            LET before == BeforeEvent(k)
                after == AfterEvent(k)
                event == Unread[k]
            IN /\ Len(after) = Len(before)
               /\ \A r \in 1..Len(before) :
                    /\ after[r].id = before[r].id
                    /\ after[r].entity = before[r].entity
                    /\ before[r].id # event.pointer_id => after[r] = before[r]
                    /\ event.action.kind = "Pressed" =>
                          /\ after[r].location = before[r].location
                          /\ \A b \in PointerButton \ {event.action.button} :
                                Button(after[r].press, b) = Button(before[r].press, b)
                    /\ event.action.kind = "Moved" =>
                          after[r].press = before[r].press]_vars

\* C16 witness: three Down events, one for each button of a live pointer,
\* have been read; all three buttons are pressed and the location is still
\* the default (with the subsets passed on the way, all 8 are reached).
C16_Witness ==
    /\ AllRead
    /\ Len(events) = 3
    /\ \A k \in 1..3 : events[k].action.kind = "Pressed" /\ events[k].action.direction = "Down"
    /\ {events[k].action.button : k \in 1..3} = PointerButton
    /\ \A k \in 1..3 : events[k].pointer_id = events[1].pointer_id
    /\ \E r \in Matching(pointers, events[1]) :
          /\ pointers[r].press = [primary |-> TRUE, secondary |-> TRUE, middle |-> TRUE]
          /\ pointers[r].location = PointerLocationDefault
\* ------------------------------------------------------------------------
\* the PointerId queries

\* the numbers a touch id is made of
TouchNumbers == TouchIds \cup (0..MaxTouchId)

\* C14: every query of a PointerId returns; of is_mouse, is_touch and
\* is_custom exactly one is true; get_touch_id returns Some(n) exactly when
\* the id is Touch(n), and None for Mouse and for every Custom id.
C14_PointerIdQueries ==
    /\ (id_result.is_mouse # None /\ id_result.is_touch # None
            /\ id_result.is_custom # None) =>
          LET m == id_result.is_mouse[1]
              t == id_result.is_touch[1]
              c == id_result.is_custom[1]
          IN \/ m /\ ~t /\ ~c
             \/ ~m /\ t /\ ~c
             \/ ~m /\ ~t /\ c
    /\ id_result.get_touch_id # None =>
          /\ \A n \in TouchNumbers :
                (id_result.get_touch_id[1] = Some(n)) <=> (id_self = Touch(n))
          /\ (id_self = Mouse \/ \E u \in Uuids : id_self = Custom(u)) =>
                id_result.get_touch_id[1] = None

\* C14 witness: the four queries have returned for the touch with id 0:
\* a touch only, and its id is Some(0), not None.
C14_Witness ==
    /\ id_self = Touch(0)
    /\ id_result = [is_touch |-> Some(TRUE), is_mouse |-> Some(FALSE),
                    is_custom |-> Some(FALSE), get_touch_id |-> Some(Some(0))]

\* ------------------------------------------------------------------------
\* bevy_error

\* severity, code, help and url of a DynamicAdvice
AdviceFields(a) ==
    [severity |-> a.severity, code |-> a.code, help |-> a.help, url |-> a.url]

\* what the Advice methods of an error return, as the strings they display
Declared(e) ==
    [severity |-> e.severity, code |-> map_to_string(e.code),
     help |-> map_to_string(e.help), url |-> map_to_string(e.url)]

\* the advice a value carries
AdviceOf(value) ==
    CASE value[1] = "Static" -> Declared(value[2])
      [] value[1] = "DynamicAdvice" -> AdviceFields(value[2])
      [] value[1] = "Report" -> AdviceFields(value[2].advice)

\* the error a value is or wraps
ErrorOf(value) ==
    CASE value[1] = "Static" -> value[2]
      [] value[1] = "DynamicAdvice" -> value[2].error
      [] value[1] = "Report" -> value[2].advice.error

Erased == [severity |-> "Error", code |-> None, help |-> None, url |-> None]

\* C15: a conversion of an Advice error through From or `?` carries what the
\* error's Advice methods return; DynamicAdvice::from_error and
\* IntoReport::report carry severity Error and no code, help or url, whatever
\* the error declares; a with_severity, with_code, with_help or with_url
\* replaces the field it names and keeps the other three and the error.
C15_AdviceKeptOrErased ==
    [][/\ (call_from \/ (question_mark /\ IsAdvice(err))) =>
              AdviceOf(err') = Declared(err[2]) /\ ErrorOf(err') = err[2]
       /\ (question_mark /\ ~IsAdvice(err)) =>
              AdviceOf(err') = AdviceOf(err) /\ ErrorOf(err') = ErrorOf(err)
       /\ (call_from_error \/ report) =>
              AdviceOf(err') = Erased /\ ErrorOf(err') = err[2]
       /\ call_with_severity =>
              /\ \E severity \in Severity :
                    AdviceOf(err') = [AdviceOf(err) EXCEPT !.severity = severity]
              /\ ErrorOf(err') = ErrorOf(err)
       /\ call_with_code =>
              /\ \E code \in {"7", "E7"} :
                    AdviceOf(err') = [AdviceOf(err) EXCEPT !.code = Some(code)]
              /\ ErrorOf(err') = ErrorOf(err)
       /\ call_with_help =>
              /\ \E help \in {"7", "E7"} :
                    AdviceOf(err') = [AdviceOf(err) EXCEPT !.help = Some(help)]
              /\ ErrorOf(err') = ErrorOf(err)
       /\ call_with_url =>
              /\ \E url \in {"7", "E7"} :
                    AdviceOf(err') = [AdviceOf(err) EXCEPT !.url = Some(url)]
              /\ ErrorOf(err') = ErrorOf(err)]_vars

\* C15 witness: an error that declares severity Warning and the code 7 has
\* become a Report through `?` and received a help text: the Report has the
\* declared severity and code, the new help and still no url.
C15_Witness ==
    /\ err[1] = "Report"
    /\ ErrorOf(err) = [advice |-> TRUE, severity |-> "Warning",
                        code |-> Some(DisplayInt(7)), help |-> None, url |-> None]
    /\ AdviceOf(err) = [severity |-> "Warning", code |-> Some("7"),
                         help |-> Some("E7"), url |-> None]
====
